---- MODULE Spec2Model ----
(***************************************************************************)
(* SemanticFusionInterface: the per-surfel class-probability table, its    *)
(* summary (max class / max probability) cache, the table synchroniser,    *)
(* the fusion update and the CRF write-back.                               *)
(*                                                                         *)
(* Floats are modelled as exact rationals <<p, q>> in lowest terms with    *)
(* q > 0, plus the IEEE specials NaN (<<0,0>>), +Inf (<<1,0>>) and -Inf    *)
(* (<<-1,0>>), so that 0/0, comparisons with NaN and "sums to 1" behave as *)
(* they do in the program (rounding is not modelled).                      *)
(***************************************************************************)
EXTENDS Integers, Sequences, FiniteSets, TLC

\* ------------------------------------------------------------------ bounds
\* number of semantic classes (constructor argument num_classes)
num_classes_ == 2
\* allocated table width (constructor argument max_components)
max_components_ == 3
\* rows of the host-side table class_probabilities_
CpuRows == 4
\* number of operations explored in one behaviour
MaxSteps == 4

Classes == 0 .. (num_classes_ - 1)
\* ------------------------------------------------------------ float values
Abs(x) == IF x < 0 THEN -x ELSE x

Sign(x) == IF x < 0 THEN -1 ELSE IF x > 0 THEN 1 ELSE 0

RECURSIVE GCD(_, _)
GCD(a, b) == IF b = 0 THEN a ELSE GCD(b, a % b)

NaN == <<0, 0>>

IsNaN(a) == a = NaN

\* the float p/q, in canonical form
Norm(p, q) ==
  IF q = 0 THEN <<Sign(p), 0>>
  ELSE LET g == GCD(Abs(p), Abs(q))
           s == Sign(q)
       IN  <<(s * p) \div g, (s * q) \div g>>

R(p, q) == Norm(p, q)

Zero == <<0, 1>>

One == <<1, 1>>

IsFinite(a) == a[2] # 0

RMul(a, b) ==
  IF IsNaN(a) \/ IsNaN(b) THEN NaN ELSE Norm(a[1] * b[1], a[2] * b[2])

RAdd(a, b) ==
  IF IsNaN(a) \/ IsNaN(b) THEN NaN
  ELSE IF a[2] = 0 /\ b[2] = 0 THEN (IF a[1] = b[1] THEN a ELSE NaN)
  ELSE Norm(a[1] * b[2] + b[1] * a[2], a[2] * b[2])

RDiv(a, b) ==
  IF IsNaN(a) \/ IsNaN(b) THEN NaN ELSE Norm(a[1] * b[2], a[2] * b[1])

\* a >= b on floats: false as soon as one side is NaN
RGe(a, b) == ~IsNaN(a) /\ ~IsNaN(b) /\ a[1] * b[2] >= b[1] * a[2]

\* a > b on floats
RGt(a, b) == ~IsNaN(a) /\ ~IsNaN(b) /\ a[1] * b[2] > b[1] * a[2]

\* a < b on floats
RLt(a, b) == RGt(b, a)

\* ------------------------------------------------------------------- rows
\* a probability row: one float per class
Uniform == [c \in Classes |-> R(1, num_classes_)]

\* classifier output that is certain of class k
Unit(k) == [c \in Classes |-> IF c = k THEN One ELSE Zero]

\* classifier output that gives class k twice the weight of every other class
Fav(k) == [c \in Classes |-> IF c = k THEN R(2, num_classes_ + 1)
                                       ELSE R(1, num_classes_ + 1)]

\* the classifier distributions fed to the fusion update
Observations == {Uniform, Unit(0), Unit(1), Fav(0)}

RECURSIVE SumTo(_, _)
\* normalisation_denominator after class ids 0 .. k-1 have been added
SumTo(p, k) == IF k = 0 THEN Zero ELSE RAdd(SumTo(p, k - 1), p[k - 1])

RowSum(p) == SumTo(p, num_classes_)

RECURSIVE ScanMaxGe(_, _)
\* faulty variant: strict comparison keeps the first maximum
ScanMaxGt(q, k) ==
  LET RECURSIVE Go(_)
      Go(j) == IF j = 0 THEN [max_prob |-> Zero, max_class |-> -1]
               ELSE LET prev == Go(j - 1)
                    IN  IF RGt(q[j - 1], prev.max_prob)
                        THEN [max_prob |-> q[j - 1], max_class |-> j - 1]
                        ELSE prev
  IN  Go(k)

\* (max_prob, max_class) after the second loop has visited class ids 0 .. k-1
ScanMaxGe(q, k) ==
  IF k = 0 THEN [max_prob |-> Zero, max_class |-> -1]
  ELSE LET prev == ScanMaxGe(q, k - 1)
       IN  IF RGe(q[k - 1], prev.max_prob)
           THEN [max_prob |-> q[k - 1], max_class |-> k - 1]
           ELSE prev

ScanMax(q) == ScanMaxGe(q, num_classes_)

\* faulty variant: the row is replaced by the observation
FuseRowReplace(surfel_probs, class_probs) ==
  LET normalisation_denominator == RowSum(class_probs)
      q == [c \in Classes |-> RDiv(class_probs[c], normalisation_denominator)]
      m == ScanMax(q)
  IN  [probs |-> q, max_prob |-> m.max_prob, max_class |-> m.max_class]

\* the fusion update of one row: multiply by the observation, renormalise,
\* and find the best class while renormalising
FuseRow(surfel_probs, class_probs) ==
  LET prod == [c \in Classes |-> RMul(surfel_probs[c], class_probs[c])]
      normalisation_denominator == RowSum(prod)
      q == [c \in Classes |-> RDiv(prod[c], normalisation_denominator)]
      m == ScanMax(q)
  IN  [probs |-> q, max_prob |-> m.max_prob, max_class |-> m.max_class]

\* faulty variant: a row exactly at the threshold is not confident
ThresholdClassStrict(m, threshold) ==
  IF RGt(m.max_prob, threshold) THEN m.max_class ELSE -1

\* the value returned for a row whose best class and probability are m
ThresholdClass(m, threshold) ==
  IF RGe(m.max_prob, threshold) THEN m.max_class ELSE -1

\* ------------------------------------------------------------ remove_index
\* the ascending sequence of the elements of a set of integers
RECURSIVE Ascending(_)
Ascending(S) ==
  IF S = {} THEN <<>>
  ELSE LET m == CHOOSE x \in S : \A y \in S : x <= y
       IN  <<m>> \o Ascending(S \ {m})

SeqSet(s) == {s[i] : i \in 1 .. Len(s)}

\* what std::move leaves behind in a moved-from row
MovedFrom == [c \in Classes |-> NaN]

RECURSIVE StdMove(_, _, _, _)
\* std::move(base + first, base + last, base + dest) on a vector held as a
\* sequence (position x is element x + 1), front to back
StdMove(v, first, last, dest) ==
  IF first >= last THEN v
  ELSE StdMove([[v EXCEPT ![dest + 1] = v[first + 1]] EXCEPT ![first + 1] = MovedFrom],
               first + 1, last, dest + 1)

RECURSIVE RemoveLoop(_, _, _)
\* the for loop of remove_index from the iter-th entry of to_remove on
\* (down_by = iter - 1)
RemoveLoop(v, to_remove, iter) ==
  IF iter > Len(to_remove) THEN v
  ELSE LET down_by == iter - 1
           next == IF iter + 1 > Len(to_remove) THEN Len(v)
                   ELSE to_remove[iter + 1]
       IN  RemoveLoop(StdMove(v, to_remove[iter] + 1, next, to_remove[iter] - down_by),
                      to_remove, iter + 1)

\* faulty variant: the destination ignores the rows already removed
remove_index_no_down_by(vector, to_remove) ==
  LET RECURSIVE Loop(_, _)
      Loop(v, iter) ==
        IF iter > Len(to_remove) THEN v
        ELSE LET next == IF iter + 1 > Len(to_remove) THEN Len(v)
                         ELSE to_remove[iter + 1]
             IN  Loop(StdMove(v, to_remove[iter] + 1, next, to_remove[iter]), iter + 1)
  IN  SubSeq(Loop(vector, 1), 1, Len(vector) - Len(to_remove))

remove_index(vector, to_remove) ==
  SubSeq(RemoveLoop(vector, to_remove, 1), 1, Len(vector) - Len(to_remove))

\* ------------------------------------------------------------------ state
VARIABLES
  class_probabilities_,            \* host table: a vector of rows
  blob,                            \* the two table blobs, [classes x max_components_] each
  maxblob,                         \* the two summary blobs, [2 x max_components_] each
  class_probabilities_gpu_,        \* handle of the active table blob
  class_probabilities_gpu_buffer_, \* handle of the inactive table blob
  class_max_gpu_,                  \* handle of the active summary blob
  class_max_gpu_buffer_,           \* handle of the inactive summary blob
  current_table_size_,             \* logical table width
  colour_threshold_,               \* confidence threshold
  aborted,                         \* a fatal check or assertion has ended the program
  steps,                           \* operations performed so far
  last,                            \* the operation that produced this state, its inputs and result
  surfel_class,                    \* the class labels the map holds for its elements
  argmax_image,                    \* the channels of the exported pixel
  rendered_class_probabilities_gpu_, \* the rendered probability raster
  driver,                          \* the frame loop: position, frame number, progress
  kernel                           \* a fusion launch in flight: its inputs and its workers

vars == <<class_probabilities_, blob, maxblob, class_probabilities_gpu_,
          class_probabilities_gpu_buffer_, class_max_gpu_, class_max_gpu_buffer_,
          current_table_size_, colour_threshold_, aborted, steps, last,
          surfel_class, argmax_image, rendered_class_probabilities_gpu_,
          driver, kernel>>

\* what the exports, the frame loop and a launch in flight hold
auxVars == <<argmax_image, rendered_class_probabilities_gpu_, driver, kernel>>

gpuVars == <<blob, maxblob, class_probabilities_gpu_, class_probabilities_gpu_buffer_,
             class_max_gpu_, class_max_gpu_buffer_, current_table_size_, surfel_class>>

TableCells == 0 .. (num_classes_ * max_components_ - 1)

MaxCells == 0 .. (2 * max_components_ - 1)

\* the row of element id in a table blob (class j of element id is cell
\* j * max_components_ + id)
Row(data, id) == [c \in Classes |-> data[c * max_components_ + id]]

\* the summary entry of element id in a summary blob: the classes are the
\* first max_components_ cells, the probabilities the next max_components_
MaxEntry(data, id) == [max_class |-> data[id], max_prob |-> data[max_components_ + id]]

\* the table and the summary the interface currently reads
ActiveTable == blob[class_probabilities_gpu_]

ActiveMax == maxblob[class_max_gpu_]

\* thresholds the interface is constructed with
Thresholds == {Zero, R(2, num_classes_ + 1)}

\* the frame loop before its first frame
DriverStart ==
  [pc |-> "while", frame_num |-> 0, map_count |-> 0, table_count |-> 0,
   attempted |-> 0, processed |-> 0, synced |-> 0, fused |-> 0]

\* no fusion launch in flight
NoLaunch ==
  [launched |-> FALSE, surfel_ids |-> <<>>, class_probs |-> Uniform,
   at |-> <<>>, loaded |-> <<>>, before |-> <<>>]

\* the label of an element no class has been pushed for
NoLabel == R(-1, 1)

Init ==
  /\ class_probabilities_ = [i \in 1 .. CpuRows |-> Uniform]
  /\ blob = [b \in 0 .. 1 |-> [i \in TableCells |-> Zero]]
  /\ maxblob = [b \in 0 .. 1 |-> [i \in MaxCells |-> Zero]]
  /\ class_probabilities_gpu_ = 0
  /\ class_probabilities_gpu_buffer_ = 1
  /\ class_max_gpu_ = 0
  /\ class_max_gpu_buffer_ = 1
  /\ current_table_size_ = 0
  /\ colour_threshold_ \in Thresholds
  /\ aborted = FALSE
  /\ steps = 0
  /\ last = [op |-> "construct", arg |-> <<>>, ret |-> 0]
  /\ surfel_class = [id \in 0 .. (max_components_ - 1) |-> NoLabel]
  /\ argmax_image = <<>>
  /\ rendered_class_probabilities_gpu_ = <<>>
  /\ driver = DriverStart
  /\ kernel = NoLaunch

Running == ~aborted /\ steps < MaxSteps

\* ------------------------------------------------------- host-side table
\* UpdateSurfelProbabilities(surfel_id, class_probs): the first assertion
\* ends the program when surfel_id is not below the number of rows; it lets
\* a negative surfel_id through, and the row reference then taken lies before
\* the vector: what the third assertion finds there may end the program, or
\* the call goes on outside the table and returns any class; the second
\* assertion ends the program when class_probs has not num_classes_ entries
UpdateSurfelProbabilities(surfel_id, class_probs) ==
  /\ Running
  /\ IF ~(Len(class_probabilities_) > surfel_id)
     THEN /\ aborted' = TRUE
          /\ last' = [op |-> "assert", arg |-> surfel_id, ret |-> 0]
          /\ UNCHANGED class_probabilities_
     ELSE IF surfel_id < 0
     THEN /\ \/ /\ aborted' = TRUE
                /\ last' = [op |-> "assert", arg |-> surfel_id, ret |-> 0]
             \/ /\ aborted' = FALSE
                /\ \E max_class \in Classes \cup {-1} :
                     last' = [op |-> "UpdateSurfelProbabilities", arg |-> surfel_id,
                              ret |-> max_class]
          /\ UNCHANGED class_probabilities_
     ELSE IF Cardinality(DOMAIN class_probs) # num_classes_
     THEN /\ aborted' = TRUE
          /\ last' = [op |-> "assert", arg |-> surfel_id, ret |-> 0]
          /\ UNCHANGED class_probabilities_
     ELSE LET f == FuseRow(class_probabilities_[surfel_id + 1], class_probs)
          IN  /\ class_probabilities_' =
                   [class_probabilities_ EXCEPT ![surfel_id + 1] = f.probs]
              /\ last' = [op |-> "UpdateSurfelProbabilities", arg |-> surfel_id,
                          ret |-> ThresholdClass(f, colour_threshold_)]
              /\ aborted' = FALSE
  /\ steps' = steps + 1
  /\ UNCHANGED <<gpuVars, colour_threshold_, auxVars>>

\* deletion lists the caller may pass for a vector of n rows: ascending,
\* duplicate-free, every entry below n
DeletionLists(n) == {Ascending(S) : S \in SUBSET (0 .. (n - 1))}

\* remove_index applied to the host table
RemoveIndex(to_remove) ==
  /\ Running
  /\ class_probabilities_' = remove_index(class_probabilities_, to_remove)
  /\ last' = [op |-> "remove_index", arg |-> to_remove, ret |-> 0]
  /\ steps' = steps + 1
  /\ UNCHANGED <<gpuVars, colour_threshold_, aborted, auxVars>>

NextCpu ==
  \/ \E surfel_id \in 0 .. CpuRows - 1, class_probs \in Observations :
       UpdateSurfelProbabilities(surfel_id, class_probs)
  \/ \E to_remove \in DeletionLists(Len(class_probabilities_)) :
       RemoveIndex(to_remove)

SpecCpu == Init /\ [][NextCpu]_vars

\* ------------------------------------------------------ device-side table
\* identity-raster pixels handed to one fusion kernel
IdPixels == 2

\* the ids that survive a synchronisation, ascending
Survivors(deleted, old_size) == Ascending((0 .. (old_size - 1)) \ SeqSet(deleted))

\* the summary entry of a row that no class has been found for
NoClass == R(-1, 1)

\* updateProbabilityTable kernel, table part: new row k is the k-th survivor,
\* or the uniform prior when there is none; cells at or beyond the new width
\* are not written
TableKernel(deleted, old_size, src, new_width, dst) ==
  LET surv == Survivors(deleted, old_size)
  IN  [i \in TableCells |->
         LET id == i % max_components_
             c == i \div max_components_
         IN  IF id >= new_width THEN dst[i]
             ELSE IF id < Len(surv) THEN src[c * max_components_ + surv[id + 1]]
             ELSE R(1, num_classes_)]

\* updateProbabilityTable kernel, summary part: the entry moves with its row;
\* a new row gets the no-class sentinel and probability 0
MaxKernel(deleted, old_size, src, new_width, dst) ==
  LET surv == Survivors(deleted, old_size)
  IN  [i \in MaxCells |->
         LET id == i % max_components_
         IN  IF id >= new_width THEN dst[i]
             ELSE IF id < Len(surv)
                  THEN src[(i \div max_components_) * max_components_ + surv[id + 1]]
             ELSE IF i < max_components_ THEN NoClass ELSE Zero]

\* some slot in [current width, new width) of the inactive table holds a
\* non-uniform distribution left by an earlier frame
OverwritesRow(new_table_width) ==
  \E id \in current_table_size_ .. (new_table_width - 1) :
    LET old == Row(blob[class_probabilities_gpu_buffer_], id)
    IN  old # Uniform /\ RowSum(old) = One

\* faulty variant: source and destination blobs exchanged in the kernel call
UpdateProbabilityTableArgsExchanged(new_table_width, deleted) ==
  /\ Running
  /\ blob' = [blob EXCEPT ![class_probabilities_gpu_] =
                TableKernel(deleted, current_table_size_, blob[class_probabilities_gpu_buffer_],
                            new_table_width, blob[class_probabilities_gpu_])]
  /\ maxblob' = [maxblob EXCEPT ![class_max_gpu_] =
                   MaxKernel(deleted, current_table_size_, maxblob[class_max_gpu_buffer_],
                             new_table_width, maxblob[class_max_gpu_])]
  /\ class_probabilities_gpu_' = class_probabilities_gpu_buffer_
  /\ class_probabilities_gpu_buffer_' = class_probabilities_gpu_
  /\ class_max_gpu_' = class_max_gpu_buffer_
  /\ class_max_gpu_buffer_' = class_max_gpu_
  /\ current_table_size_' = new_table_width
  /\ last' = [op |-> "UpdateProbabilityTable",
              arg |-> [deleted |-> deleted, old_size |-> current_table_size_,
                       new_table_width |-> new_table_width],
              ret |-> OverwritesRow(new_table_width)]
  /\ steps' = steps + 1
  /\ UNCHANGED <<class_probabilities_, colour_threshold_, aborted, surfel_class, auxVars>>

\* faulty variant: the logical width is not updated
UpdateProbabilityTableKeepsSize(new_table_width, deleted) ==
  /\ Running
  /\ blob' = [blob EXCEPT ![class_probabilities_gpu_buffer_] =
                TableKernel(deleted, current_table_size_, blob[class_probabilities_gpu_],
                            new_table_width, blob[class_probabilities_gpu_buffer_])]
  /\ maxblob' = [maxblob EXCEPT ![class_max_gpu_buffer_] =
                   MaxKernel(deleted, current_table_size_, maxblob[class_max_gpu_],
                             new_table_width, maxblob[class_max_gpu_buffer_])]
  /\ class_probabilities_gpu_' = class_probabilities_gpu_buffer_
  /\ class_probabilities_gpu_buffer_' = class_probabilities_gpu_
  /\ class_max_gpu_' = class_max_gpu_buffer_
  /\ class_max_gpu_buffer_' = class_max_gpu_
  /\ current_table_size_' = current_table_size_
  /\ last' = [op |-> "UpdateProbabilityTable",
              arg |-> [deleted |-> deleted, old_size |-> current_table_size_,
                       new_table_width |-> new_table_width],
              ret |-> OverwritesRow(new_table_width)]
  /\ steps' = steps + 1
  /\ UNCHANGED <<class_probabilities_, colour_threshold_, aborted, surfel_class, auxVars>>

\* faulty variant: the table handles are exchanged, the summary handles are not
UpdateProbabilityTableTableSwapOnly(new_table_width, deleted) ==
  /\ Running
  /\ blob' = [blob EXCEPT ![class_probabilities_gpu_buffer_] =
                TableKernel(deleted, current_table_size_, blob[class_probabilities_gpu_],
                            new_table_width, blob[class_probabilities_gpu_buffer_])]
  /\ maxblob' = [maxblob EXCEPT ![class_max_gpu_buffer_] =
                   MaxKernel(deleted, current_table_size_, maxblob[class_max_gpu_],
                             new_table_width, maxblob[class_max_gpu_buffer_])]
  /\ class_probabilities_gpu_' = class_probabilities_gpu_buffer_
  /\ class_probabilities_gpu_buffer_' = class_probabilities_gpu_
  /\ current_table_size_' = new_table_width
  /\ last' = [op |-> "UpdateProbabilityTable",
              arg |-> [deleted |-> deleted, old_size |-> current_table_size_,
                       new_table_width |-> new_table_width],
              ret |-> OverwritesRow(new_table_width)]
  /\ steps' = steps + 1
  /\ UNCHANGED <<class_probabilities_, colour_threshold_, aborted, surfel_class, auxVars,
                 class_max_gpu_, class_max_gpu_buffer_>>

\* UpdateProbabilityTable(map): new_table_width = map->GetMapSurfelCount(),
\* deleted = map->GetDeletedSurfelIdsGpu() (num_deleted = Len(deleted)).
\* The kernel reads the active blobs and writes the buffers, then the handles
\* are swapped and the width stored.  last.ret records whether a slot of a
\* new row held a non-uniform distribution before the call.
UpdateProbabilityTable(new_table_width, deleted) ==
  /\ Running
  /\ blob' = [blob EXCEPT ![class_probabilities_gpu_buffer_] =
                TableKernel(deleted, current_table_size_, blob[class_probabilities_gpu_],
                            new_table_width, blob[class_probabilities_gpu_buffer_])]
  /\ maxblob' = [maxblob EXCEPT ![class_max_gpu_buffer_] =
                   MaxKernel(deleted, current_table_size_, maxblob[class_max_gpu_],
                             new_table_width, maxblob[class_max_gpu_buffer_])]
  /\ class_probabilities_gpu_' = class_probabilities_gpu_buffer_
  /\ class_probabilities_gpu_buffer_' = class_probabilities_gpu_
  /\ class_max_gpu_' = class_max_gpu_buffer_
  /\ class_max_gpu_buffer_' = class_max_gpu_
  /\ current_table_size_' = new_table_width
  /\ last' = [op |-> "UpdateProbabilityTable",
              arg |-> [deleted |-> deleted, old_size |-> current_table_size_,
                       new_table_width |-> new_table_width],
              ret |-> OverwritesRow(new_table_width)]
  /\ steps' = steps + 1
  /\ UNCHANGED <<class_probabilities_, colour_threshold_, aborted, surfel_class, auxVars>>

\* a table blob with the row of element id replaced
WithRow(data, id, row) ==
  [i \in TableCells |-> IF i % max_components_ = id
                        THEN row[i \div max_components_] ELSE data[i]]

\* a summary blob with the entry of element id replaced
WithMax(data, id, max_class, max_prob) ==
  [i \in MaxCells |-> IF i = id THEN R(max_class, 1)
                      ELSE IF i = max_components_ + id THEN max_prob
                      ELSE data[i]]

\* the per-row update of the fuseSemanticProbabilities kernel: the update of
\* FuseRow with the renormalisation floored by a small epsilon, so that a row
\* whose products are all zero is divided by epsilon and stays all zero
KernelFuseRow(surfel_probs, class_probs) ==
  LET prod == [c \in Classes |-> RMul(surfel_probs[c], class_probs[c])]
      total == RowSum(prod)
      q == [c \in Classes |-> IF total = Zero THEN prod[c] ELSE RDiv(prod[c], total)]
      m == ScanMax(q)
  IN  [probs |-> q, max_prob |-> m.max_prob, max_class |-> m.max_class]

RECURSIVE FuseKernel(_, _, _, _)
\* fuseSemanticProbabilities kernel over identity pixels p .. Len(surfel_ids):
\* every pixel that shows an element (id > 0) multiplies the classifier
\* distribution into the element's row and recomputes its summary entry; a
\* row shown by several pixels is updated once per pixel
FuseKernel(surfel_ids, class_probs, tm, p) ==
  IF p > Len(surfel_ids) THEN tm
  ELSE LET id == surfel_ids[p]
           f == KernelFuseRow(Row(tm.table, id), class_probs)
       IN  IF id > 0
           THEN FuseKernel(surfel_ids, class_probs,
                           [table |-> WithRow(tm.table, id, f.probs),
                            max |-> WithMax(tm.max, id, f.max_class, f.max_prob)],
                           p + 1)
           ELSE FuseKernel(surfel_ids, class_probs, tm, p + 1)

\* faulty variant: the channel count is not checked
UpdateProbabilitiesUnchecked(channels, class_probs, surfel_ids) ==
  /\ Running
  /\ LET tm == FuseKernel(surfel_ids, class_probs,
                          [table |-> ActiveTable, max |-> ActiveMax], 1)
     IN  /\ blob' = [blob EXCEPT ![class_probabilities_gpu_] = tm.table]
         /\ maxblob' = [maxblob EXCEPT ![class_max_gpu_] = tm.max]
  /\ last' = [op |-> "UpdateProbabilities", arg |-> channels, ret |-> 0]
  /\ steps' = steps + 1
  /\ UNCHANGED <<class_probabilities_, class_probabilities_gpu_,
                 class_probabilities_gpu_buffer_, class_max_gpu_, class_max_gpu_buffer_,
                 current_table_size_, surfel_class, colour_threshold_, aborted, auxVars>>

\* map->UpdateSurfelClassGpu(n, classes, probs, threshold): the first n
\* elements of the map take the cached class when the cached probability
\* reaches the threshold, the sentinel otherwise
UpdateSurfelClassGpu(labels, n, data, threshold) ==
  [id \in DOMAIN labels |->
     IF id < n
     THEN IF RGe(MaxEntry(data, id).max_prob, threshold)
          THEN MaxEntry(data, id).max_class
          ELSE NoLabel
     ELSE labels[id]]

\* UpdateProbabilities(probs, map): probs has `channels` channels and holds
\* the distribution class_probs; surfel_ids is map->GetSurfelIdsGpu().
\* CHECK_EQ ends the program when the channel count is not num_classes_.
UpdateProbabilities(channels, class_probs, surfel_ids) ==
  /\ Running
  /\ IF num_classes_ = channels
     THEN LET tm == FuseKernel(surfel_ids, class_probs,
                               [table |-> ActiveTable, max |-> ActiveMax], 1)
          IN  /\ blob' = [blob EXCEPT ![class_probabilities_gpu_] = tm.table]
              /\ maxblob' = [maxblob EXCEPT ![class_max_gpu_] = tm.max]
              /\ surfel_class' = UpdateSurfelClassGpu(surfel_class, max_components_,
                                                      tm.max, colour_threshold_)
              /\ last' = [op |-> "UpdateProbabilities", arg |-> channels, ret |-> 0]
              /\ aborted' = FALSE
     ELSE /\ aborted' = TRUE
          /\ last' = [op |-> "CHECK_EQ", arg |-> channels, ret |-> 0]
          /\ UNCHANGED <<blob, maxblob, surfel_class>>
  /\ steps' = steps + 1
  /\ UNCHANGED <<class_probabilities_, class_probabilities_gpu_,
                 class_probabilities_gpu_buffer_, class_max_gpu_, class_max_gpu_buffer_,
                 current_table_size_, colour_threshold_, auxVars>>

\* faulty variant: the table is addressed row by row, as resulting_probs is
WriteBackRowMajor(prob_table, resulting_probs, size) ==
  [c \in TableCells |->
     LET id == c \div num_classes_
         j == c % num_classes_
     IN  IF id < size
         THEN LET r == resulting_probs[id * num_classes_ + j]
              IN  IF RGt(r, Zero) /\ RLt(r, One) THEN r ELSE prob_table[c]
         ELSE prob_table[c]]

\* faulty variant: the filter lets 0.0 and 1.0 through
WriteBackInclusive(prob_table, resulting_probs, size) ==
  [c \in TableCells |->
     LET id == c % max_components_
         j == c \div max_components_
     IN  IF id < size
         THEN LET r == resulting_probs[id * num_classes_ + j]
              IN  IF RGe(r, Zero) /\ RGe(One, r) THEN r ELSE prob_table[c]
         ELSE prob_table[c]]

\* the write-back loop of CRFUpdate over valid_ids = 0 .. size - 1: cell
\* j * max_components_ + id takes resulting_probs[i * num_classes_ + j] when
\* that is > 0.0 and < 1.0
WriteBack(prob_table, resulting_probs, size) ==
  [c \in TableCells |->
     LET id == c % max_components_
         j == c \div max_components_
     IN  IF id < size
         THEN LET r == resulting_probs[id * num_classes_ + j]
              IN  IF RGt(r, Zero) /\ RLt(r, One) THEN r ELSE prob_table[c]
         ELSE prob_table[c]]

\* updateMaxClass kernel: the summary entry of every row below n recomputed
\* from the table
MaxClassKernel(n, table, max) ==
  [i \in MaxCells |->
     LET id == i % max_components_
         m == ScanMax(Row(table, id))
     IN  IF id >= n THEN max[i]
         ELSE IF i < max_components_ THEN R(m.max_class, 1) ELSE m.max_prob]

\* faulty variant: the summary is not recomputed after the write-back
CRFUpdateNoMaxClass(resulting_probs) ==
  /\ Running
  /\ blob' = [blob EXCEPT ![class_probabilities_gpu_] =
                WriteBack(ActiveTable, resulting_probs, current_table_size_)]
  /\ maxblob' = maxblob
  /\ surfel_class' = UpdateSurfelClassGpu(surfel_class, max_components_,
                                          ActiveMax, colour_threshold_)
  /\ last' = [op |-> "CRFUpdate", arg |-> resulting_probs, ret |-> 0]
  /\ steps' = steps + 1
  /\ UNCHANGED <<class_probabilities_, class_probabilities_gpu_,
                 class_probabilities_gpu_buffer_, class_max_gpu_, class_max_gpu_buffer_,
                 current_table_size_, colour_threshold_, aborted, auxVars>>

\* CRFUpdate(map, iterations): resulting_probs is what crf.runInference
\* returned for rows 0 .. current_table_size_ - 1
CRFUpdate(resulting_probs) ==
  /\ Running
  /\ LET prob_table == WriteBack(ActiveTable, resulting_probs, current_table_size_)
         gpu_max_map == MaxClassKernel(current_table_size_, prob_table, ActiveMax)
     IN  /\ blob' = [blob EXCEPT ![class_probabilities_gpu_] = prob_table]
         /\ maxblob' = [maxblob EXCEPT ![class_max_gpu_] = gpu_max_map]
         /\ surfel_class' = UpdateSurfelClassGpu(surfel_class, max_components_,
                                                 gpu_max_map, colour_threshold_)
  /\ last' = [op |-> "CRFUpdate", arg |-> resulting_probs, ret |-> 0]
  /\ steps' = steps + 1
  /\ UNCHANGED <<class_probabilities_, class_probabilities_gpu_,
                 class_probabilities_gpu_buffer_, class_max_gpu_, class_max_gpu_buffer_,
                 current_table_size_, colour_threshold_, aborted, auxVars>>

\* -------------------------------------------------------------- the inputs
\* widths and deletion lists the map reports within its contract: the list
\* ascending, duplicate-free and below the current width, the new width at
\* least the number of survivors and at most the allocated width
MapReports ==
  {<<w, d>> \in (0 .. max_components_) \X DeletionLists(current_table_size_) :
     w >= current_table_size_ - Len(d)}

\* identity rasters: every pixel shows no element (0) or a live element
IdRasters == [1 .. IdPixels -> 0 .. (IF current_table_size_ = 0 THEN 0
                                     ELSE current_table_size_ - 1)]

\* single values the inference may return for a cell
CrfValues == {NaN, Zero, One, R(-1, 2), R(3, 2), R(1, 4)}

\* results the inference may return for one row: a distribution with every
\* class strictly inside (0,1), the same with the cell of the last class
\* replaced, or all NaN
CrfRows ==
  {Fav(0), [c \in Classes |-> NaN]}
    \cup {[Fav(0) EXCEPT ![num_classes_ - 1] = x] : x \in CrfValues}

\* inference results for the live rows: one row, or every row, gets a result
\* of CrfRows and the others NaN
CrfResults ==
  LET live == 0 .. (current_table_size_ - 1)
  IN  {[i \in 0 .. (current_table_size_ * num_classes_ - 1) |->
          IF (i \div num_classes_) \in T THEN v[i % num_classes_] ELSE NaN] :
         T \in {{id} : id \in live} \cup {live}, v \in CrfRows}

\* classifier output with one channel more than the interface has classes
WideObservation ==
  [c \in 0 .. num_classes_ |-> IF c = 0 THEN R(2, num_classes_ + 2)
                                        ELSE R(1, num_classes_ + 2)]

Next ==
  \/ \E wd \in MapReports : UpdateProbabilityTable(wd[1], wd[2])
  \/ \E class_probs \in Observations, surfel_ids \in IdRasters :
       UpdateProbabilities(num_classes_, class_probs, surfel_ids)
  \/ \E surfel_ids \in IdRasters :
       UpdateProbabilities(num_classes_ + 1, WideObservation, surfel_ids)
  \/ \E resulting_probs \in CrfResults : CRFUpdate(resulting_probs)

\* the device-side operations do not read colour_threshold_ (it is only handed
\* on to the map), so the device-side specification fixes it
InitGpu == Init /\ colour_threshold_ = Zero

Spec == InitGpu /\ [][Next]_vars

\* ------------------------------------------------------------------ claims
LiveIds == 0 .. (current_table_size_ - 1)

\* the classes of a row that hold its largest probability (a NaN is no
\* probability and is larger than none)
MaxClasses(row) ==
  {c \in Classes : ~IsNaN(row[c]) /\ \A c2 \in Classes : IsNaN(row[c2]) \/ RGe(row[c], row[c2])}

Smallest(S) == CHOOSE x \in S : \A y \in S : x <= y

Largest(S) == CHOOSE x \in S : \A y \in S : x >= y

\* the number of entries of a deletion list smaller than id
DeletedBelow(d, id) == Cardinality({x \in SeqSet(d) : x < id})

\* C1 (compaction): remove_index, given an ascending duplicate-free list of
\* entries below the width, leaves exactly the non-deleted rows, in their
\* original order and with unchanged content, each moved down by the number
\* of deleted identifiers smaller than it.
C1_Compaction ==
  [][last'.op = "remove_index" =>
       LET pre == class_probabilities_
           d == last'.arg
           surv == Survivors(d, Len(pre))
       IN  /\ Len(class_probabilities_') = Len(surv)
           /\ \A k \in 1 .. Len(surv) :
                /\ class_probabilities_'[k] = pre[surv[k] + 1]
                /\ k - 1 = surv[k] - DeletedBelow(d, surv[k])]_vars

\* C1 witness: rows 1 and 3 of a table of width 4 were removed and the two
\* rows kept differ
C1_Witness ==
  /\ last.op = "remove_index"
  /\ last.arg = <<1, 3>>
  /\ Len(class_probabilities_) = 2
  /\ class_probabilities_[1] # class_probabilities_[2]

\* the row the last host-side fusion update wrote
FusedRow == class_probabilities_[last.arg + 1]

\* C7 as claimed (ties broken by the lowest class index): when the fusion
\* update reports a class and several classes share the maximum, the class
\* reported is the lowest of them.
C7_TieLowest ==
  (last.op = "UpdateSurfelProbabilities" /\ last.ret # -1)
    => last.ret = Smallest(MaxClasses(FusedRow))

\* C7 amended: when the fusion update reports a class and several classes
\* share the maximum probability, the class reported is the one with the
\* highest class index (the >= comparison lets every later maximum win).
C7_TieHighest ==
  (last.op = "UpdateSurfelProbabilities" /\ last.ret # -1)
    => last.ret = Largest(MaxClasses(FusedRow))

\* C7 witness: a fusion update reported a class for a row in which two or
\* more classes share the maximum
C7_Witness ==
  /\ last.op = "UpdateSurfelProbabilities"
  /\ last.ret # -1
  /\ Cardinality(MaxClasses(FusedRow)) >= 2

\* C8 (threshold sentinel): the fusion update returns -1 or a class index;
\* it returns a class exactly when the row's maximum probability is >=
\* colour_threshold_, and that class then holds the maximum.
C8_ThresholdSentinel ==
  last.op = "UpdateSurfelProbabilities" =>
    /\ last.ret \in Classes \cup {-1}
    /\ last.ret # -1 <=> \E c \in MaxClasses(FusedRow) : RGe(FusedRow[c], colour_threshold_)
    /\ last.ret # -1 => last.ret \in MaxClasses(FusedRow)

\* C8 witness: the maximum of the fused row is exactly the (non-zero)
\* threshold and a class was returned
C8_Witness ==
  /\ last.op = "UpdateSurfelProbabilities"
  /\ colour_threshold_ # Zero
  /\ last.ret # -1
  /\ FusedRow[last.ret] = colour_threshold_

\* C10 as claimed (zero-sum recovery): after a fusion update every value of
\* the updated row is finite, also when the products were all zero.
C10_ZeroSumFinite ==
  last.op = "UpdateSurfelProbabilities" => \A c \in Classes : IsFinite(FusedRow[c])

\* a row is a probability distribution: non-negative values that sum to 1
IsDistribution(row) ==
  /\ \A c \in Classes : RGe(row[c], Zero)
  /\ RowSum(row) = One

\* some cell of the last CRFUpdate's result passed the write-back filter
SomeAccepted ==
  \E i \in DOMAIN last.arg : RGt(last.arg[i], Zero) /\ RLt(last.arg[i], One)

\* C6 as claimed (normalisation): after a fusion update, and after a
\* CRFUpdate that did not discard its whole result, every live row is a
\* probability distribution.
C6_Normalised ==
  (last.op = "UpdateProbabilities" \/ (last.op = "CRFUpdate" /\ SomeAccepted))
    => \A id \in LiveIds : IsDistribution(Row(ActiveTable, id))

\* C2 (row creation): after UpdateProbabilityTable has grown the width from
\* W_old to W_new, every row in [W_old, W_new) holds 1/num_classes for every
\* class and its summary entry holds the no-class sentinel -1, whatever the
\* slots held before.
C2_RowCreation ==
  last.op = "UpdateProbabilityTable" =>
    \A id \in last.arg.old_size .. (current_table_size_ - 1) :
      /\ Row(ActiveTable, id) = Uniform
      /\ MaxEntry(ActiveMax, id).max_class = NoClass

\* C2 witness: the width grew and a slot of a new row held a non-uniform
\* distribution of an earlier frame
C2_Witness ==
  /\ last.op = "UpdateProbabilityTable"
  /\ last.arg.old_size < current_table_size_
  /\ last.ret = TRUE

\* C3 (idempotence): an UpdateProbabilityTable with no deletions and the
\* width unchanged leaves every live row and every live summary entry, read
\* through the active handles, as it was; holding for every such step, it
\* holds for any number of them in a row.
C3_Idempotent ==
  [][(/\ last'.op = "UpdateProbabilityTable"
      /\ last'.arg.deleted = <<>>
      /\ last'.arg.new_table_width = current_table_size_)
       => \A id \in LiveIds :
            /\ Row(ActiveTable', id) = Row(ActiveTable, id)
            /\ MaxEntry(ActiveMax', id) = MaxEntry(ActiveMax, id)]_vars

\* C3 witness: such a call was made on a table with a fused (non-uniform,
\* classified) live row
C3_Witness ==
  /\ last.op = "UpdateProbabilityTable"
  /\ last.arg.deleted = <<>>
  /\ last.arg.old_size = current_table_size_
  /\ \E id \in LiveIds :
       /\ Row(ActiveTable, id) # Uniform
       /\ MaxEntry(ActiveMax, id).max_class # NoClass

\* the summary entry of element id is a best class of its row with that
\* class's probability (no class and probability 0 for a row of NaN)
SummaryMatches(id) ==
  LET row == Row(ActiveTable, id)
      e == MaxEntry(ActiveMax, id)
  IN  IF MaxClasses(row) = {} THEN e = [max_class |-> NoClass, max_prob |-> Zero]
      ELSE /\ e.max_class \in {R(c, 1) : c \in MaxClasses(row)}
           /\ e.max_prob = row[e.max_class[1]]

\* C4 as claimed (summary consistency): the active summary entry of every
\* live row is the best class and best probability of that row.
C4_SummaryConsistent == \A id \in LiveIds : SummaryMatches(id)

\* C4 amended: the active summary entry of every live row is the best class
\* and best probability of that row, except that a row created by
\* UpdateProbabilityTable and not fused or smoothed since holds the uniform
\* prior with the no-class sentinel -1.
C4_SummaryConsistentOrFresh ==
  \A id \in LiveIds :
    \/ SummaryMatches(id)
    \/ /\ Row(ActiveTable, id) = Uniform
       /\ MaxEntry(ActiveMax, id) = [max_class |-> NoClass, max_prob |-> Zero]

\* C4 witness: a CRFUpdate wrote a result into a live row, whose summary
\* entry names a class
C4_Witness ==
  /\ last.op = "CRFUpdate"
  /\ \E id \in LiveIds, j \in Classes :
       /\ Row(ActiveTable, id)[j] = last.arg[id * num_classes_ + j]
       /\ MaxEntry(ActiveMax, id).max_class # NoClass

\* C5 (width bound): current_table_size_ never exceeds max_components_ (the
\* map reporting at most the allocated width), and after an
\* UpdateProbabilityTable it equals the count the map reported.
C5_WidthBound ==
  /\ current_table_size_ <= max_components_
  /\ last.op = "UpdateProbabilityTable" => current_table_size_ = last.arg.new_table_width

\* C5 witness: a synchronisation changed the width to the allocated width
C5_Witness ==
  /\ last.op = "UpdateProbabilityTable"
  /\ last.arg.old_size # current_table_size_
  /\ current_table_size_ = max_components_

\* a value the write-back filter must not store: NaN, <= 0 or >= 1
Rejected(r) == IsNaN(r) \/ RGe(Zero, r) \/ RGe(r, One)

\* C9 (write-back filter): CRFUpdate leaves a cell of a live row unchanged
\* when the inference result for it is 0.0, 1.0, negative, above 1 or NaN,
\* and a cell it changes takes a result strictly between 0 and 1.
C9_WriteBackFilter ==
  [][last'.op = "CRFUpdate" =>
       \A id \in LiveIds, j \in Classes :
         LET r == last'.arg[id * num_classes_ + j]
             cell == j * max_components_ + id
         IN  /\ Rejected(r) => ActiveTable'[cell] = ActiveTable[cell]
             /\ ~Rejected(r) => ActiveTable'[cell] = r]_vars

\* C9 witness: one CRFUpdate got 1.0 for a cell and a value inside (0,1),
\* now in the table, for another
C9_Witness ==
  /\ last.op = "CRFUpdate"
  /\ \E i \in DOMAIN last.arg : last.arg[i] = One
  /\ \E id \in LiveIds, j \in Classes :
       /\ ~Rejected(last.arg[id * num_classes_ + j])
       /\ ActiveTable[j * max_components_ + id] = last.arg[id * num_classes_ + j]

\* ------------------------------------------------------------- the exports
\* SaveArgMaxPredictions: the bounds of the two patch loops
PatchStart == 0

PatchEnd == 2

\* the model exports one output pixel, (h, w) = (0, 0), so the identity
\* raster read by SaveArgMaxPredictions has the columns of one patch
IdWidth == PatchEnd - PatchStart

\* the pixel of the identity raster the loops read for output pixel (h, w)
\* at patch position (x, y)
PatchIndex(h, w, x, y) == ((h * 2) + y) * IdWidth + (w * 2 + x)

\* the patch positions <<x, y>> in the order of the loops: x outer, y inner
PatchScan ==
  [i \in 1 .. (IdWidth * IdWidth) |->
     <<PatchStart + ((i - 1) \div IdWidth), PatchStart + ((i - 1) % IdWidth)>>]

\* float to int: the fraction is dropped
ToInt(r) == Sign(r[1]) * (Abs(r[1]) \div r[2])

\* int to the unsigned 8-bit channel of a cv::Vec3b
ToUchar(i) == i % 256

\* faulty variant of the patch loops: an element whose cached probability
\* equals this_max_prob replaces the one held
RECURSIVE PatchLoopGe(_, _, _, _, _)
PatchLoopGe(surfel_ids, data, size, i, this) ==
  IF i > Len(PatchScan) THEN this
  ELSE LET id == surfel_ids[PatchIndex(0, 0, PatchScan[i][1], PatchScan[i][2])]
       IN  IF id > 0 /\ id < size
              /\ RGe(MaxEntry(data, id).max_prob, this.max_prob)
           THEN PatchLoopGe(surfel_ids, data, size, i + 1,
                            [max_prob |-> MaxEntry(data, id).max_prob,
                             max_class |-> ToInt(MaxEntry(data, id).max_class)])
           ELSE PatchLoopGe(surfel_ids, data, size, i + 1, this)

\* faulty variant of the patch loops: the first in-range element wins
RECURSIVE PatchLoopFirst(_, _, _, _, _)
PatchLoopFirst(surfel_ids, data, size, i, this) ==
  IF i > Len(PatchScan) THEN this
  ELSE LET id == surfel_ids[PatchIndex(0, 0, PatchScan[i][1], PatchScan[i][2])]
       IN  IF id > 0 /\ id < size /\ this.max_prob = Zero
              /\ RGt(MaxEntry(data, id).max_prob, Zero)
           THEN PatchLoopFirst(surfel_ids, data, size, i + 1,
                               [max_prob |-> MaxEntry(data, id).max_prob,
                                max_class |-> ToInt(MaxEntry(data, id).max_class)])
           ELSE PatchLoopFirst(surfel_ids, data, size, i + 1, this)

\* the patch loops of one output pixel, from position i on: this holds
\* this_max_prob and this_max_class
RECURSIVE PatchLoop(_, _, _, _, _)
PatchLoop(surfel_ids, data, size, i, this) ==
  IF i > Len(PatchScan) THEN this
  ELSE LET id == surfel_ids[PatchIndex(0, 0, PatchScan[i][1], PatchScan[i][2])]
       IN  IF id > 0 /\ id < size
              /\ RGt(MaxEntry(data, id).max_prob, this.max_prob)
           THEN PatchLoop(surfel_ids, data, size, i + 1,
                          [max_prob |-> MaxEntry(data, id).max_prob,
                           max_class |-> ToInt(MaxEntry(data, id).max_class)])
           ELSE PatchLoop(surfel_ids, data, size, i + 1, this)

\* SaveArgMaxPredictions(filename, map): surfel_ids is
\* map->GetSurfelIdsCpu(); the image written has the same value in its
\* three channels
SaveArgMaxPredictions(surfel_ids) ==
  /\ Running
  /\ LET this == PatchLoop(surfel_ids, ActiveMax, current_table_size_, 1,
                           [max_prob |-> Zero, max_class |-> 0])
     IN  argmax_image' = <<ToUchar(this.max_class), ToUchar(this.max_class),
                           ToUchar(this.max_class)>>
  /\ last' = [op |-> "SaveArgMaxPredictions", arg |-> surfel_ids, ret |-> 0]
  /\ steps' = steps + 1
  /\ UNCHANGED <<class_probabilities_, gpuVars, colour_threshold_, aborted,
                 rendered_class_probabilities_gpu_, driver, kernel>>

\* renderProbabilityMap kernel: every pixel of the raster gets the row of
\* the element it shows, a pixel showing no element a row of zeros
RenderKernel(surfel_ids, table) ==
  [p \in DOMAIN surfel_ids |->
     IF surfel_ids[p] > 0 THEN Row(table, surfel_ids[p])
     ELSE [c \in Classes |-> Zero]]

\* faulty variant: the rows gathered are cleared in the table
CalculateProjectedProbabilityMapMoving(surfel_ids) ==
  /\ Running
  /\ rendered_class_probabilities_gpu_' = RenderKernel(surfel_ids, ActiveTable)
  /\ blob' = [blob EXCEPT ![class_probabilities_gpu_] =
                [i \in TableCells |->
                   IF \E p \in DOMAIN surfel_ids :
                        surfel_ids[p] > 0 /\ surfel_ids[p] = i % max_components_
                   THEN Zero ELSE ActiveTable[i]]]
  /\ last' = [op |-> "CalculateProjectedProbabilityMap", arg |-> <<>>, ret |-> 0]
  /\ steps' = steps + 1
  /\ UNCHANGED <<class_probabilities_, maxblob, class_probabilities_gpu_,
                 class_probabilities_gpu_buffer_, class_max_gpu_, class_max_gpu_buffer_,
                 current_table_size_, surfel_class, colour_threshold_, aborted,
                 argmax_image, driver, kernel>>

\* CalculateProjectedProbabilityMap(map): surfel_ids is map->GetSurfelIdsGpu()
CalculateProjectedProbabilityMap(surfel_ids) ==
  /\ Running
  /\ rendered_class_probabilities_gpu_' = RenderKernel(surfel_ids, ActiveTable)
  /\ last' = [op |-> "CalculateProjectedProbabilityMap", arg |-> <<>>, ret |-> 0]
  /\ steps' = steps + 1
  /\ UNCHANGED <<class_probabilities_, gpuVars, colour_threshold_, aborted,
                 argmax_image, driver, kernel>>

\* identity rasters of one patch: every pixel shows no element (0), a live
\* element, or an identifier at the current width, which is out of range
PatchRasters == [0 .. (IdWidth * IdWidth - 1) -> 0 .. current_table_size_]

\* the operations that export
ExportOps == {"SaveArgMaxPredictions", "CalculateProjectedProbabilityMap"}

\* the interface with its exports: the table is synchronised and fused and
\* an export is taken at any point; runs are followed up to their first export
NextExport ==
  \/ /\ last.op \notin ExportOps
     /\ \E wd \in MapReports : UpdateProbabilityTable(wd[1], wd[2])
  \/ /\ last.op \notin ExportOps
     /\ \E class_probs \in Observations, surfel_ids \in IdRasters :
          UpdateProbabilities(num_classes_, class_probs, surfel_ids)
  \/ /\ last.op \notin ExportOps
     /\ \E surfel_ids \in PatchRasters : SaveArgMaxPredictions(surfel_ids)
  \/ /\ last.op \notin ExportOps
     /\ \E surfel_ids \in IdRasters : CalculateProjectedProbabilityMap(surfel_ids)

SpecExport == InitGpu /\ [][NextExport]_vars

\* --------------------------------------------------- claims on the exports
\* the identifier the loops read at scan position i of the patch
PatchId(surfel_ids, i) ==
  surfel_ids[PatchIndex(0, 0, PatchScan[i][1], PatchScan[i][2])]

\* the scan positions of the exported patch whose identifier is in range
InRange == {i \in DOMAIN PatchScan :
              PatchId(last.arg, i) > 0 /\ PatchId(last.arg, i) < current_table_size_}

\* the cached summary of the element at scan position i of the exported patch
PatchEntry(i) == MaxEntry(ActiveMax, PatchId(last.arg, i))

\* the scan positions in range whose cached probability is above 0
Positive == {i \in InRange : RGt(PatchEntry(i).max_prob, Zero)}

\* C11 as stated: after SaveArgMaxPredictions the pixel has the same value in
\* its three channels; that value is the cached best class of an in-range
\* element of the patch with the highest cached probability, and class 0
\* when the patch has no in-range element
C11_PatchMax ==
  last.op = "SaveArgMaxPredictions" =>
    /\ Len(argmax_image) = 3
    /\ argmax_image[1] = argmax_image[2] /\ argmax_image[2] = argmax_image[3]
    /\ IF InRange = {} THEN argmax_image[1] = 0
       ELSE \E i \in InRange :
              /\ \A j \in InRange : RGe(PatchEntry(i).max_prob, PatchEntry(j).max_prob)
              /\ R(argmax_image[1], 1) = PatchEntry(i).max_class

\* C11 amended: after SaveArgMaxPredictions the pixel has the same value in
\* its three channels; that value is the cached best class of the first
\* element in scan order (x outer, y inner) that has the highest cached
\* probability among the in-range elements of the patch whose cached
\* probability is above 0, and class 0 when the patch has no such element
C11_PatchMaxPositive ==
  last.op = "SaveArgMaxPredictions" =>
    /\ Len(argmax_image) = 3
    /\ argmax_image[1] = argmax_image[2] /\ argmax_image[2] = argmax_image[3]
    /\ IF Positive = {} THEN argmax_image[1] = 0
       ELSE LET best == {i \in Positive : \A j \in Positive :
                           RGe(PatchEntry(i).max_prob, PatchEntry(j).max_prob)}
            IN  R(argmax_image[1], 1) = PatchEntry(Smallest(best)).max_class

\* C11 witness: the exported patch shows two in-range elements of different
\* classes, the one scanned later with the higher cached probability, and
\* the pixel has the class of the later one
C11_Witness ==
  /\ last.op = "SaveArgMaxPredictions"
  /\ \E i, j \in Positive :
       /\ i < j
       /\ RGt(PatchEntry(j).max_prob, PatchEntry(i).max_prob)
       /\ PatchEntry(i).max_class # PatchEntry(j).max_class
       /\ R(argmax_image[1], 1) = PatchEntry(j).max_class

\* C12: CalculateProjectedProbabilityMap and SaveArgMaxPredictions leave the
\* two table blobs, the two summary blobs, the four handles and
\* current_table_size_ as they were; CalculateProjectedProbabilityMap changes
\* nothing of the interface but the rendered probability raster
C12_ReadOnly ==
  [][last'.op \in ExportOps /\ steps' = steps + 1 =>
        /\ UNCHANGED <<blob, maxblob, class_probabilities_gpu_,
                       class_probabilities_gpu_buffer_, class_max_gpu_,
                       class_max_gpu_buffer_, current_table_size_>>
        /\ last'.op = "CalculateProjectedProbabilityMap" =>
             UNCHANGED <<class_probabilities_, colour_threshold_, surfel_class,
                         argmax_image>>]_vars

\* C12 witness: a projection has gathered a fused row, which is still in the
\* active table
C12_Witness ==
  /\ last.op = "CalculateProjectedProbabilityMap"
  /\ \E p \in DOMAIN rendered_class_probabilities_gpu_, id \in LiveIds :
       /\ id > 0
       /\ rendered_class_probabilities_gpu_[p] = Row(ActiveTable, id)
       /\ rendered_class_probabilities_gpu_[p] # Uniform
       /\ \E c \in Classes : rendered_class_probabilities_gpu_[p][c] # Zero

\* ---------------------------------------------- claims on contract checks
\* C13: a call of UpdateProbabilities whose classifier output has a channel
\* count other than num_classes_ ends the program and leaves the two table
\* blobs, the two summary blobs and the class labels of the map as they were
C13_ChannelCheck ==
  [][(/\ last'.op \in {"UpdateProbabilities", "CHECK_EQ"}
      /\ steps' = steps + 1
      /\ last'.arg # num_classes_) =>
        /\ aborted'
        /\ UNCHANGED <<blob, maxblob, surfel_class>>]_vars

\* C13 witness: the program was ended by the channel check with live rows in
\* the table, one of them fused before
C13_Witness ==
  /\ last.op = "CHECK_EQ"
  /\ aborted
  /\ last.arg = num_classes_ + 1
  /\ \E id \in LiveIds : id > 0 /\ Row(ActiveTable, id) # Uniform

\* widths and deletion lists of a map that may break its contract: the new
\* width may be below the number of survivors
AnyMapReports == (0 .. max_components_) \X DeletionLists(current_table_size_)

\* the interface under a map that may report an inconsistent width
NextAnyMap ==
  \/ \E wd \in AnyMapReports : UpdateProbabilityTable(wd[1], wd[2])
  \/ \E class_probs \in Observations, surfel_ids \in IdRasters :
       UpdateProbabilities(num_classes_, class_probs, surfel_ids)

SpecAnyMap == InitGpu /\ [][NextAnyMap]_vars

\* C14: a call of UpdateProbabilityTable for which the map reports a width
\* below the old width minus the number of deleted rows, or above
\* max_components_, ends the program with the width as it was
C14_WidthAssert ==
  (/\ last.op = "UpdateProbabilityTable"
   /\ \/ last.arg.new_table_width < last.arg.old_size - Len(last.arg.deleted)
      \/ last.arg.new_table_width > max_components_) =>
    /\ aborted
    /\ current_table_size_ = last.arg.old_size

\* classifier output with one entry less than the interface has classes
NarrowObservation == [c \in 0 .. (num_classes_ - 2) |-> R(1, num_classes_ - 1)]

\* the host-side table under any caller: identifiers from -1 up to the
\* number of rows, class_probs of any length
NextCpuAny ==
  \/ \E surfel_id \in (-1) .. CpuRows,
        class_probs \in Observations \cup {WideObservation, NarrowObservation} :
       UpdateSurfelProbabilities(surfel_id, class_probs)
  \/ \E to_remove \in DeletionLists(Len(class_probabilities_)) :
       RemoveIndex(to_remove)

SpecCpuAny == Init /\ [][NextCpuAny]_vars

\* C15: a call of UpdateSurfelProbabilities with surfel_id below 0 or not
\* below the number of rows, or with class_probs of a length other than
\* num_classes_, ends the program and leaves every row as it was
C15_BoundsCheck ==
  [][\A surfel_id \in (-1) .. CpuRows,
        class_probs \in Observations \cup {WideObservation, NarrowObservation} :
       (/\ UpdateSurfelProbabilities(surfel_id, class_probs)
        /\ \/ surfel_id < 0
           \/ surfel_id >= Len(class_probabilities_)
           \/ Cardinality(DOMAIN class_probs) # num_classes_) =>
         /\ aborted'
         /\ UNCHANGED class_probabilities_]_vars

\* ---------------------------------------------------------- the frame loop
\* main: the loop runs while frame_num is below this
MaxFrames == 10

cnn_skip_frames == 0

\* the condition under which a frame is fused
FusesFrame(frame_num) ==
  \/ cnn_skip_frames = 0
  \/ frame_num = 0
  \/ (frame_num > 1 /\ (frame_num + 1) % cnn_skip_frames = 0)

\* while (frame_num < 10): the loop is entered again, or left
LoopTest ==
  /\ driver.pc = "while"
  /\ driver' = [driver EXCEPT !.pc = IF driver.frame_num < MaxFrames
                                     THEN "ProcessFrame" ELSE "done"]
  /\ UNCHANGED <<class_probabilities_, gpuVars, colour_threshold_, aborted, steps,
                 last, argmax_image, rendered_class_probabilities_gpu_, kernel>>

\* faulty variant: a lost frame falls through to the synchronisation
ProcessFrameNoReturn(ok, count) ==
  /\ driver.pc = "ProcessFrame"
  /\ driver' = [driver EXCEPT !.attempted = @ + 1,
                              !.pc = "UpdateObjectTable",
                              !.map_count = IF ok THEN count ELSE @,
                              !.processed = IF ok THEN @ + 1 ELSE @]
  /\ UNCHANGED <<class_probabilities_, gpuVars, colour_threshold_, aborted, steps,
                 last, argmax_image, rendered_class_probabilities_gpu_, kernel>>

\* getNext, getMasks, setTrackingOnly and map->ProcessFrame: when the map
\* takes the frame it holds count elements afterwards; when it is lost main
\* returns
ProcessFrame(ok, count) ==
  /\ driver.pc = "ProcessFrame"
  /\ driver' = IF ok
               THEN [driver EXCEPT !.attempted = @ + 1,
                                   !.pc = "UpdateObjectTable",
                                   !.map_count = count,
                                   !.processed = @ + 1]
               ELSE [driver EXCEPT !.attempted = @ + 1, !.pc = "lost"]
  /\ UNCHANGED <<class_probabilities_, gpuVars, colour_threshold_, aborted, steps,
                 last, argmax_image, rendered_class_probabilities_gpu_, kernel>>

\* object_fusion->UpdateObjectTable(map): the table takes the width of the map
UpdateObjectTable ==
  /\ driver.pc = "UpdateObjectTable"
  /\ driver' = [driver EXCEPT !.synced = @ + 1,
                              !.table_count = driver.map_count,
                              !.pc = IF FusesFrame(driver.frame_num)
                                     THEN "UpdateObjectIds" ELSE "frame_num++"]
  /\ UNCHANGED <<class_probabilities_, gpuVars, colour_threshold_, aborted, steps,
                 last, argmax_image, rendered_class_probabilities_gpu_, kernel>>

\* object_fusion->UpdateObjectIds(&masks, getNumMasks(), map)
UpdateObjectIds ==
  /\ driver.pc = "UpdateObjectIds"
  /\ driver' = [driver EXCEPT !.fused = @ + 1, !.pc = "frame_num++"]
  /\ UNCHANGED <<class_probabilities_, gpuVars, colour_threshold_, aborted, steps,
                 last, argmax_image, rendered_class_probabilities_gpu_, kernel>>

\* frame_num++
NextFrame ==
  /\ driver.pc = "frame_num++"
  /\ driver' = [driver EXCEPT !.frame_num = @ + 1, !.pc = "while"]
  /\ UNCHANGED <<class_probabilities_, gpuVars, colour_threshold_, aborted, steps,
                 last, argmax_image, rendered_class_probabilities_gpu_, kernel>>

NextDriver ==
  \/ LoopTest
  \/ \E ok \in BOOLEAN, count \in 0 .. max_components_ : ProcessFrame(ok, count)
  \/ UpdateObjectTable
  \/ UpdateObjectIds
  \/ NextFrame

SpecDriver == Init /\ [][NextDriver]_vars

\* C16: in the frame loop the synchronisation of frame n starts only when
\* ProcessFrame has taken frame n and the frames before are synchronised and
\* fused; the fusion of frame n starts only when frame n is synchronised;
\* the next frame starts only when frame n is fused; a frame ProcessFrame
\* lost is neither synchronised nor fused, ProcessFrame is not called for it
\* again and the loop takes no further step
C16_FrameOrdering ==
  LET n == driver.frame_num
  IN  /\ driver.pc = "UpdateObjectTable" =>
           /\ driver.processed = n + 1 /\ driver.attempted = n + 1
           /\ driver.synced = n /\ driver.fused = n
      /\ driver.pc = "UpdateObjectIds" =>
           /\ driver.processed = n + 1 /\ driver.synced = n + 1 /\ driver.fused = n
           /\ driver.table_count = driver.map_count
      /\ driver.pc = "frame_num++" =>
           driver.processed = n + 1 /\ driver.synced = n + 1 /\ driver.fused = n + 1
      /\ driver.pc \in {"while", "ProcessFrame", "done"} =>
           /\ driver.processed = n /\ driver.attempted = n
           /\ driver.synced = n /\ driver.fused = n
      /\ driver.pc = "lost" =>
           /\ driver.attempted = n + 1 /\ driver.processed = n
           /\ driver.synced = n /\ driver.fused = n
           /\ ~ENABLED NextDriver

\* C16 witness: two frames were processed, synchronised and fused, and the
\* third was lost
C16_Witness ==
  /\ driver.pc = "lost"
  /\ driver.frame_num = 2
  /\ driver.fused = 2

\* ------------------------------------------------ claims on repeated fusion
\* the observation gives class k more than every other class
Favours(class_probs, k) ==
  \A c \in Classes \ {k} : RGt(class_probs[k], class_probs[c])

RECURSIVE Pow(_, _)
Pow(r, n) == IF n = 0 THEN One ELSE RMul(Pow(r, n - 1), r)

\* the row a uniform row becomes when the same observation is fused into it
\* n times: proportional to the n-th powers of the observation
FusedTimes(class_probs, n) ==
  LET pw == [c \in Classes |-> Pow(class_probs[c], n)]
  IN  [c \in Classes |-> RDiv(pw[c], RowSum(pw))]

\* C17 as stated: when an observation favouring class k is fused into a row
\* that came from the uniform row by fusing that same observation only, the
\* best class of the row is k afterwards, the call returns k or the
\* below-threshold sentinel, and the probability of k is strictly greater
\* than before
C17_StrictlyIncreasing ==
  [][\A surfel_id \in 0 .. (CpuRows - 1), class_probs \in Observations,
        k \in Classes, n \in 0 .. MaxSteps :
       (/\ last'.op = "UpdateSurfelProbabilities"
        /\ last'.arg = surfel_id
        /\ Favours(class_probs, k)
        /\ surfel_id < Len(class_probabilities_)
        /\ class_probabilities_[surfel_id + 1] = FusedTimes(class_probs, n)
        /\ UpdateSurfelProbabilities(surfel_id, class_probs)) =>
         /\ MaxClasses(class_probabilities_'[surfel_id + 1]) = {k}
         /\ last'.ret \in {k, -1}
         /\ RGt(class_probabilities_'[surfel_id + 1][k],
                class_probabilities_[surfel_id + 1][k])]_vars

\* C17 amended: under the same conditions the best class of the row is k
\* afterwards, the call returns k or the below-threshold sentinel, and the
\* probability of k is not smaller than before and strictly greater when it
\* was below 1 before
C17_IncreasingBelowOne ==
  [][\A surfel_id \in 0 .. (CpuRows - 1), class_probs \in Observations,
        k \in Classes, n \in 0 .. MaxSteps :
       (/\ last'.op = "UpdateSurfelProbabilities"
        /\ last'.arg = surfel_id
        /\ Favours(class_probs, k)
        /\ surfel_id < Len(class_probabilities_)
        /\ class_probabilities_[surfel_id + 1] = FusedTimes(class_probs, n)
        /\ UpdateSurfelProbabilities(surfel_id, class_probs)) =>
         /\ MaxClasses(class_probabilities_'[surfel_id + 1]) = {k}
         /\ last'.ret \in {k, -1}
         /\ RGe(class_probabilities_'[surfel_id + 1][k],
                class_probabilities_[surfel_id + 1][k])
         /\ RLt(class_probabilities_[surfel_id + 1][k], One) =>
              RGt(class_probabilities_'[surfel_id + 1][k],
                  class_probabilities_[surfel_id + 1][k])]_vars

\* C17 witness: three calls in all, each fusing the observation that
\* favours class 0 into the same row, which was uniform at the start
C17_Witness ==
  /\ last.op = "UpdateSurfelProbabilities"
  /\ steps = 3
  /\ last.ret = 0
  /\ class_probabilities_[last.arg + 1] = FusedTimes(Fav(0), 3)

\* ------------------------------------------- the fusion kernel, per worker
\* UpdateProbabilities launches fuseSemanticProbabilities: one worker per
\* pixel of the identity raster, a pixel showing no element has nothing to do
Launch(class_probs, surfel_ids) ==
  /\ Running
  /\ ~kernel.launched
  /\ kernel' = [launched |-> TRUE, surfel_ids |-> surfel_ids, class_probs |-> class_probs,
                at |-> [p \in DOMAIN surfel_ids |->
                          IF surfel_ids[p] > 0 THEN "load" ELSE "done"],
                loaded |-> [p \in DOMAIN surfel_ids |-> Uniform],
                before |-> [table |-> ActiveTable, max |-> ActiveMax]]
  /\ UNCHANGED <<class_probabilities_, gpuVars, colour_threshold_, aborted, steps,
                 last, argmax_image, rendered_class_probabilities_gpu_, driver>>

\* the worker of pixel p reads the row of its element
WorkerLoad(p) ==
  /\ kernel.launched
  /\ kernel.at[p] = "load"
  /\ kernel' = [kernel EXCEPT !.at[p] = "store",
                              !.loaded[p] = Row(ActiveTable, kernel.surfel_ids[p])]
  /\ UNCHANGED <<class_probabilities_, gpuVars, colour_threshold_, aborted, steps,
                 last, argmax_image, rendered_class_probabilities_gpu_, driver>>

\* the worker of pixel p writes the fused row and its summary entry
WorkerStore(p) ==
  /\ kernel.launched
  /\ kernel.at[p] = "store"
  /\ LET id == kernel.surfel_ids[p]
         f == KernelFuseRow(kernel.loaded[p], kernel.class_probs)
     IN  /\ blob' = [blob EXCEPT ![class_probabilities_gpu_] =
                       WithRow(ActiveTable, id, f.probs)]
         /\ maxblob' = [maxblob EXCEPT ![class_max_gpu_] =
                          WithMax(ActiveMax, id, f.max_class, f.max_prob)]
  /\ kernel' = [kernel EXCEPT !.at[p] = "done"]
  /\ UNCHANGED <<class_probabilities_, class_probabilities_gpu_,
                 class_probabilities_gpu_buffer_, class_max_gpu_, class_max_gpu_buffer_,
                 current_table_size_, surfel_class, colour_threshold_, aborted, steps,
                 last, argmax_image, rendered_class_probabilities_gpu_, driver>>

\* every worker is done: the labels are pushed to the map and
\* UpdateProbabilities returns
Finish ==
  /\ kernel.launched
  /\ \A p \in DOMAIN kernel.at : kernel.at[p] = "done"
  /\ kernel' = NoLaunch
  /\ surfel_class' = UpdateSurfelClassGpu(surfel_class, max_components_, ActiveMax,
                                          colour_threshold_)
  /\ last' = [op |-> "UpdateProbabilities", arg |-> num_classes_, ret |-> 0]
  /\ steps' = steps + 1
  /\ UNCHANGED <<class_probabilities_, blob, maxblob, class_probabilities_gpu_,
                 class_probabilities_gpu_buffer_, class_max_gpu_, class_max_gpu_buffer_,
                 current_table_size_, colour_threshold_, aborted,
                 argmax_image, rendered_class_probabilities_gpu_, driver>>

\* synchronisation and fusion, the fusion kernel run worker by worker
NextWorkers ==
  \/ /\ ~kernel.launched
     /\ \E wd \in MapReports : UpdateProbabilityTable(wd[1], wd[2])
  \/ \E class_probs \in Observations, surfel_ids \in IdRasters :
       Launch(class_probs, surfel_ids)
  \/ \E p \in 1 .. IdPixels : WorkerLoad(p)
  \/ \E p \in 1 .. IdPixels : WorkerStore(p)
  \/ Finish

SpecWorkers == InitGpu /\ [][NextWorkers]_vars

\* C18: in a fusion launch no two workers have the same element, and when
\* every worker is done the active table and summary are what fusing the
\* pixels one after the other gives, whatever the order of the workers' steps
C18_WorkersIndependent ==
  kernel.launched =>
    /\ \A p, q \in DOMAIN kernel.surfel_ids :
         (p # q /\ kernel.surfel_ids[p] > 0) => kernel.surfel_ids[p] # kernel.surfel_ids[q]
    /\ (\A p \in DOMAIN kernel.at : kernel.at[p] = "done") =>
         LET tm == FuseKernel(kernel.surfel_ids, kernel.class_probs, kernel.before, 1)
         IN  ActiveTable = tm.table /\ ActiveMax = tm.max

\* C18 restricted to launches whose pixels show different elements
C18_DistinctPixelsIndependent ==
  (/\ kernel.launched
   /\ \A p, q \in DOMAIN kernel.surfel_ids :
        (p # q /\ kernel.surfel_ids[p] > 0) => kernel.surfel_ids[p] # kernel.surfel_ids[q]
   /\ \A p \in DOMAIN kernel.at : kernel.at[p] = "done") =>
    LET tm == FuseKernel(kernel.surfel_ids, kernel.class_probs, kernel.before, 1)
    IN  ActiveTable = tm.table /\ ActiveMax = tm.max

\* two workers of one element have both read the row before either wrote it,
\* and the finished table has the observation fused once only
C18_LostUpdate ==
  /\ kernel.launched
  /\ \A p \in DOMAIN kernel.at : kernel.at[p] = "done"
  /\ \E p, q \in DOMAIN kernel.surfel_ids :
       /\ p # q /\ kernel.surfel_ids[p] > 0 /\ kernel.surfel_ids[p] = kernel.surfel_ids[q]
       /\ kernel.loaded[p] = kernel.loaded[q]
       /\ Row(ActiveTable, kernel.surfel_ids[p]) =
            KernelFuseRow(kernel.loaded[p], kernel.class_probs).probs
       /\ Row(ActiveTable, kernel.surfel_ids[p]) #
            Row(FuseKernel(kernel.surfel_ids, kernel.class_probs, kernel.before, 1).table,
                kernel.surfel_ids[p])

\* ------------------------------------------------ claims on frame effects
\* C19: the active and the inactive handle of the table differ, and so do
\* those of the summary; table and summary have been swapped equally often;
\* every UpdateProbabilityTable exchanges the two table handles and the two
\* summary handles, and the pair that is inactive afterwards holds the table
\* and the summary exactly as they were active before the call
C19_DoubleBuffer ==
  [][/\ class_probabilities_gpu_' # class_probabilities_gpu_buffer_'
     /\ class_max_gpu_' # class_max_gpu_buffer_'
     /\ class_probabilities_gpu_' = class_max_gpu_'
     /\ (last'.op = "UpdateProbabilityTable" /\ steps' = steps + 1) =>
          /\ class_probabilities_gpu_' = class_probabilities_gpu_buffer_
          /\ class_probabilities_gpu_buffer_' = class_probabilities_gpu_
          /\ class_max_gpu_' = class_max_gpu_buffer_
          /\ class_max_gpu_buffer_' = class_max_gpu_
          /\ blob'[class_probabilities_gpu_buffer_'] = blob[class_probabilities_gpu_]
          /\ maxblob'[class_max_gpu_buffer_'] = maxblob[class_max_gpu_]]_vars

\* C19 witness: after a second synchronisation the handles are back where
\* they started, the inactive table holds a fused row and differs from the
\* active one
C19_Witness ==
  /\ last.op = "UpdateProbabilityTable"
  /\ class_probabilities_gpu_ = 0 /\ class_max_gpu_ = 0
  /\ steps >= 2
  /\ blob[class_probabilities_gpu_buffer_] # ActiveTable
  /\ \E id \in 1 .. (max_components_ - 1) :
       /\ Row(blob[class_probabilities_gpu_buffer_], id) # Uniform
       /\ \E c \in Classes : Row(blob[class_probabilities_gpu_buffer_], id)[c] # Zero

\* C20: CRFUpdate leaves current_table_size_, the handles and the inactive
\* blobs as they were; a cell of the active table that it changes is cell
\* j * max_components_ + id of a class j and a row id below
\* current_table_size_ and takes the result the inference returned for
\* (id, j); every cell of a row at or beyond current_table_size_ is unchanged
C20_LiveRowsOnly ==
  [][(last'.op = "CRFUpdate" /\ steps' = steps + 1) =>
        /\ UNCHANGED <<current_table_size_, class_probabilities_gpu_,
                       class_probabilities_gpu_buffer_, class_max_gpu_,
                       class_max_gpu_buffer_>>
        /\ blob'[class_probabilities_gpu_buffer_] = blob[class_probabilities_gpu_buffer_]
        /\ maxblob'[class_max_gpu_buffer_] = maxblob[class_max_gpu_buffer_]
        /\ \A j \in Classes, id \in 0 .. (max_components_ - 1) :
             LET cell == j * max_components_ + id
             IN  /\ id >= current_table_size_ => ActiveTable'[cell] = ActiveTable[cell]
                 /\ ActiveTable'[cell] # ActiveTable[cell] =>
                      ActiveTable'[cell] = last'.arg[id * num_classes_ + j]]_vars

\* C20 witness: a CRFUpdate on a table with rows beyond the current width
\* that hold the distribution of an earlier frame has written a result into
\* a live row
C20_Witness ==
  /\ last.op = "CRFUpdate"
  /\ current_table_size_ < max_components_
  /\ \E id \in current_table_size_ .. (max_components_ - 1), c \in Classes :
       Row(ActiveTable, id)[c] # Zero
  /\ \E id \in LiveIds, j \in Classes :
       /\ ~Rejected(last.arg[id * num_classes_ + j])
       /\ ActiveTable[j * max_components_ + id] = last.arg[id * num_classes_ + j]
       /\ ActiveTable[j * max_components_ + id] # R(1, num_classes_)

====
